---- MODULE Spec2Model ----
(***************************************************************************)
(* The call-session relay of src/twilio-client/server.js: one WebSocket    *)
(* connection per call, a JSON frame protocol (setup / prompt / interrupt),*)
(* one Langflow agent call per prompt frame, one 'text' frame per call.    *)
(***************************************************************************)
EXTENDS Integers, Sequences, FiniteSets, TLC

\* ------------------------------------------------------------------ bounds
\* Frames received over all connections in one run.
MaxFrames == 3
\* Frames among them that start an agent call.
MaxPrompts == 2

\* The connections ConversationRelay opens in one run.
Conns == {"c1", "c2"}

\* ------------------------------------------------------- JavaScript values
\* A JavaScript value is a tag and a printed form.
Undefined == [t |-> "undefined", v |-> ""]
Null == [t |-> "null", v |-> ""]
Str(s) == [t |-> "string", v |-> s]
Num(s) == [t |-> "number", v |-> s]

\* ToBoolean, as the || operator of line 130-132 applies it.
Truthy(x) ==
    CASE x.t = "undefined" -> FALSE
      [] x.t = "null" -> FALSE
      [] x.t = "string" -> x.v # ""
      [] x.t = "number" -> x.v # "0"
      [] x.t = "boolean" -> x.v = "true"
      [] OTHER -> TRUE

\* a || b
Or(a, b) == IF Truthy(a) THEN a ELSE b

\* --------------------------------------------------------------- constants
DidntUnderstand == Str("I'm sorry, I didn't understand that. Could you please try again?")
Apology == Str("I'm sorry, I'm having trouble processing your request right now. Please try again later.")

\* ----------------------------------------------------------- inbound frames
\* The bytes of an inbound frame: either no JSON text at all, or the JSON text
\* of a value.  A parsed value is null, a scalar, or an object of which only
\* the fields type and voicePrompt are read (Undefined = the key is missing).
Garbage == [syntax |-> "invalid", kind |-> "none", type |-> Undefined, voicePrompt |-> Undefined]
JsonNull == [syntax |-> "valid", kind |-> "null", type |-> Undefined, voicePrompt |-> Undefined]
JsonScalar == [syntax |-> "valid", kind |-> "scalar", type |-> Undefined, voicePrompt |-> Undefined]
JsonObject(ty, vp) == [syntax |-> "valid", kind |-> "object", type |-> ty, voicePrompt |-> vp]

Utterances == {Str("What time is the keynote?"), Str(""), Undefined}

SetupFrame == JsonObject(Str("setup"), Undefined)
InterruptFrame == JsonObject(Str("interrupt"), Undefined)
PromptFrame(u) == JsonObject(Str("prompt"), u)
NoTypeFrame == JsonObject(Undefined, Str("What time is the keynote?"))
UnknownTypeFrame == JsonObject(Str("dtmf"), Undefined)

BadFrames == {Garbage, JsonNull, JsonScalar, NoTypeFrame, UnknownTypeFrame}
Frames == {SetupFrame, InterruptFrame} \cup {PromptFrame(u) : u \in Utterances} \cup BadFrames

\* JSON.parse(data.toString()), line 52: throws on text that is not JSON.
JSONparse(data) == [threw |-> data.syntax = "invalid", message |-> data]

\* message.type, line 56: a TypeError on null, undefined on a scalar.
MessageType(message) ==
    IF message.kind = "null" THEN [threw |-> TRUE, type |-> Undefined]
    ELSE IF message.kind = "scalar" THEN [threw |-> FALSE, type |-> Undefined]
    ELSE [threw |-> FALSE, type |-> message.type]

\* The branch a frame takes through the handler: the switch of lines 56-87
\* (strict equality on the case labels) inside the try of line 51.
Dispatch_SetupFallsThrough(data) ==
    LET p == JSONparse(data)
        ty == MessageType(p.message)
    IN  IF p.threw \/ ty.threw THEN "catch"
        ELSE IF ty.type = Str("setup") THEN "prompt"
        ELSE IF ty.type = Str("prompt") THEN "prompt"
        ELSE IF ty.type = Str("interrupt") THEN "interrupt"
        ELSE "default"

Dispatch_SkipsEmptyPrompt(data) ==
    LET p == JSONparse(data)
        ty == MessageType(p.message)
    IN  IF p.threw \/ ty.threw THEN "catch"
        ELSE IF ty.type = Str("setup") THEN "setup"
        ELSE IF ty.type = Str("prompt") /\ Truthy(p.message.voicePrompt) THEN "prompt"
        ELSE IF ty.type = Str("interrupt") THEN "interrupt"
        ELSE "default"

Dispatch(data) ==
    LET p == JSONparse(data)
        ty == MessageType(p.message)
    IN  IF p.threw \/ ty.threw THEN "catch"
        ELSE IF ty.type = Str("setup") THEN "setup"
        ELSE IF ty.type = Str("prompt") THEN "prompt"
        ELSE IF ty.type = Str("interrupt") THEN "interrupt"
        ELSE "default"

\* ------------------------------------------------------------- agent client
\* response.data of a settled axios.post: a parsed JSON object, of which only
\* outputs[0].outputs[0].results.message.text (text) and message are read, or
\* the raw string axios leaves when the body is not JSON.
JsonData(text, message) == [kind |-> "json", text |-> text, message |-> message]
RawData == [kind |-> "raw", text |-> Undefined, message |-> Undefined]
NoData == [kind |-> "none", text |-> Undefined, message |-> Undefined]

Resolve(data) == [kind |-> "resolve", code |-> "200", data |-> data]
Reject(code) == [kind |-> "reject", code |-> code, data |-> NoData]
\* No HTTP call was made (LANGFLOW_URL missing, line 108-110).
NotCalled == [kind |-> "notcalled", code |-> "LANGFLOW_URL not configured", data |-> NoData]

Failures == {Reject("ERR_BAD_RESPONSE 500"), Reject("ECONNREFUSED"), Reject("ETIMEDOUT")}
Bodies == {JsonData(Str("10:30 AM"), Undefined), JsonData(Undefined, Str("10:30 AM")),
           JsonData(Undefined, Undefined), RawData}
Outcomes == Failures \cup {Resolve(d) : d \in Bodies}

\* response.data?.outputs?.[0]?.outputs?.[0]?.results?.message?.text
NestedText(data) == IF data.kind = "json" THEN data.text ELSE Undefined
\* response.data?.message
TopMessage(data) == IF data.kind = "json" THEN data.message ELSE Undefined

\* lines 130-132
ExtractResponse(data) == Or(NestedText(data), Or(TopMessage(data), DidntUnderstand))

\* lines 112-124: the request of one call.
BuildRequest_AlwaysAuthorized(e, userMessage) ==
    [sent |-> TRUE, input_value |-> userMessage, output_type |-> "chat",
     input_type |-> "chat", authorization |-> TRUE]

BuildRequest(e, userMessage) ==
    [sent |-> TRUE, input_value |-> userMessage, output_type |-> "chat",
     input_type |-> "chat", authorization |-> e.LANGFLOW_API_KEY]

NoRequest ==
    [sent |-> FALSE, input_value |-> Undefined, output_type |-> "", input_type |-> "",
     authorization |-> FALSE]

\* The whole of callLangflowAgent once its HTTP call has settled with
\* outcome (NotCalled when line 109 threw before any call): what the await
\* of line 67 receives.
callLangflowAgent_Rethrows(e, outcome) ==
    IF ~e.LANGFLOW_URL \/ outcome.kind # "resolve"
    THEN [threw |-> TRUE, value |-> Undefined]
    ELSE [threw |-> FALSE, value |-> ExtractResponse(outcome.data)]

callLangflowAgent(e, outcome) ==
    IF ~e.LANGFLOW_URL \/ outcome.kind # "resolve"
    THEN [threw |-> FALSE, value |-> Apology]
    ELSE [threw |-> FALSE, value |-> ExtractResponse(outcome.data)]

\* ------------------------------------------------------------ reply frames
\* JSON.stringify drops a property whose value is undefined.
JSONproperty(x) == IF x.t = "undefined" THEN Undefined ELSE x

\* lines 70-75 and the JSON.stringify of line 78
responseMessage_NotLast(agentResponse) ==
    [type |-> "text", token |-> JSONproperty(agentResponse), last |-> FALSE, interruptible |-> TRUE]

responseMessage(agentResponse) ==
    [type |-> "text", token |-> JSONproperty(agentResponse), last |-> TRUE, interruptible |-> TRUE]

\* ws.send(frame), line 78, on a socket in state rs.  On a socket that is not
\* open nothing is written; the library either throws or drops the call
\* silently, depending on its version (throwsWhenClosed).
wsSend_WritesWhenClosed(rs, throwsWhenClosed) ==
    [written |-> TRUE, threw |-> FALSE]

wsSend(rs, throwsWhenClosed) ==
    [written |-> rs = "OPEN", threw |-> rs # "OPEN" /\ throwsWhenClosed]

\* lines 88-90: the catch of the message handler logs and returns; the socket
\* keeps the state it had.
onMessageCatch_Escapes(rs) == [readyState |-> "CLOSED", escaped |-> TRUE]

onMessageCatch(rs) == [readyState |-> rs, escaped |-> FALSE]

\* ------------------------------------------------------------------- state
VARIABLES
    env,         \* process.env (LANGFLOW_URL, LANGFLOW_API_KEY set or not) and
                 \* whether the backend behind LANGFLOW_URL answers at all
    readyState,  \* per connection: "NONE" (not yet accepted), "OPEN", "CLOSED"
    received,    \* per connection: frames given to its message handler
    prompts,     \* per connection: how many of them took the 'prompt' case
    requests,    \* per connection: axios.post calls made (line 127)
    calls,       \* the message handlers suspended at the await of line 67
    outbox,      \* per connection: the ws.send calls made (line 78), in order
    escaped,     \* an exception left the message handler
    last,        \* the event handled last: a frame, or the end of an agent call
    agentResponse, \* what the await of line 67 gave the handler run last
    twiml,       \* the response to the event handled last, when it was a POST /voice
    proc         \* the process: "running", "closing" (server.close called after
                 \* SIGTERM, line 145), or "exit 0"

vars == <<env, readyState, received, prompts, requests, calls, outbox, escaped, last,
          agentResponse, twiml, proc>>

\* The process has not exited: its event loop still handles events.
Alive == proc # "exit 0"

RECURSIVE Sum(_, _)
Sum(f, S) ==
    IF S = {} THEN 0
    ELSE LET c == CHOOSE x \in S : TRUE IN f[c] + Sum(f, S \ {c})

TotalFrames == Sum(received, Conns)
TotalPrompts == Sum(prompts, Conns)

\* A suspended handler: the prompt was the idx-th prompt of connection conn,
\* received when seen replies had been sent on it.
Call(c, idx, seen) == [conn |-> c, idx |-> idx, seen |-> seen]

\* One ws.send call: the frame and whether it reached the wire; for the
\* record, the prompt it answers.
SendRec(k, frame, s) ==
    [idx |-> k.idx, seen |-> k.seen, frame |-> frame, written |-> s.written]

\* The 'message' event reaches the handler of an open socket whether or not
\* earlier runs of the async handler are still suspended at their await
\* (lines 50 and 67).
Listening_BlockedByAwait(c) ==
    readyState[c] = "OPEN" /\ ~\E k \in calls : k.conn = c

Listening(c) == readyState[c] = "OPEN"

\* The socket a resumed handler sends on: the ws of its own closure (lines
\* 47 and 78).
ReplySocket_Shared(k) == CHOOSE c \in Conns : TRUE

ReplySocket(k) == k.conn

\* The await of line 67: the handler run of call k is suspended next to
\* those already suspended.
Suspend_Supersedes(cs, k) == {j \in cs : j.conn # k.conn} \cup {k}

Suspend(cs, k) == cs \cup {k}

\* case 'interrupt', lines 81-83: logs; the suspended handlers stay.
onInterrupt_Cancels(cs, c) == {k \in cs : k.conn # c}

onInterrupt(cs, c) == cs

\* No callLangflowAgent result: the handler run did not reach line 67, or
\* is suspended there.
NoAnswer == [threw |-> FALSE, value |-> [t |-> "none", v |-> ""]]
\* No response: the event was not a POST /voice.
NoTwiml == [host |-> Undefined, status |-> 0, type |-> "",
            url |-> [scheme |-> "", host |-> "", path |-> ""],
            welcomeGreeting |-> "", language |-> ""]

NoOutcome == [kind |-> "none", code |-> "", data |-> NoData]
NoEvent == [kind |-> "none", conn |-> "", idx |-> 0, data |-> Garbage,
            request |-> NoRequest, outcome |-> NoOutcome]
FrameEvent(c, data, idx, request, outcome) ==
    [kind |-> "frame", conn |-> c, idx |-> idx, data |-> data,
     request |-> request, outcome |-> outcome]
SettleEvent(k, outcome) ==
    [kind |-> "settle", conn |-> k.conn, idx |-> k.idx, data |-> Garbage,
     request |-> NoRequest, outcome |-> outcome]

Init ==
    /\ env \in [LANGFLOW_URL : BOOLEAN, LANGFLOW_API_KEY : BOOLEAN, backendAnswers : BOOLEAN]
    /\ readyState = [c \in Conns |-> "NONE"]
    /\ received = [c \in Conns |-> 0]
    /\ prompts = [c \in Conns |-> 0]
    /\ requests = [c \in Conns |-> 0]
    /\ calls = {}
    /\ outbox = [c \in Conns |-> <<>>]
    /\ escaped = FALSE
    /\ last = NoEvent
    /\ agentResponse = NoAnswer
    /\ twiml = NoTwiml
    /\ proc = "running"

\* wss.on('connection'), lines 47-100: the handlers are attached to an open
\* socket.
Connect(c) ==
    /\ proc = "running"
    /\ readyState[c] = "NONE"
    /\ readyState' = [readyState EXCEPT ![c] = "OPEN"]
    /\ twiml' = NoTwiml
    /\ UNCHANGED <<env, received, prompts, requests, calls, outbox, escaped, last,
                    agentResponse, proc>>

\* ws.on('close'), lines 93-95: the peer went away; the handler only logs.
Close(c) ==
    /\ Alive
    /\ readyState[c] = "OPEN"
    /\ readyState' = [readyState EXCEPT ![c] = "CLOSED"]
    /\ twiml' = NoTwiml
    /\ UNCHANGED <<env, received, prompts, requests, calls, outbox, escaped, last,
                    agentResponse, proc>>

\* ws.on('error'), lines 97-99: the transport failed; the handler only logs,
\* and the socket that reported the error is closed by the ws library.
WsError(c) ==
    /\ Alive
    /\ readyState[c] = "OPEN"
    /\ readyState' = [readyState EXCEPT ![c] = "CLOSED"]
    /\ twiml' = NoTwiml
    /\ UNCHANGED <<env, received, prompts, requests, calls, outbox, escaped, last,
                    agentResponse, proc>>

\* The handler's catch (lines 88-90) on connection c.
Caught(c) ==
    LET k == onMessageCatch(readyState[c])
    IN  /\ readyState' = [readyState EXCEPT ![c] = k.readyState]
        /\ escaped' = (escaped \/ k.escaped)

\* Lines 67-79 from the moment callLangflowAgent settles: build the frame and
\* send it on the connection of k, whatever state it is in by then.
Reply_SendsTwice(k, outcome) ==
    LET r == callLangflowAgent(env, outcome)
        ws == ReplySocket(k)
    IN  /\ agentResponse' = r
        /\ UNCHANGED <<readyState, escaped>>
        /\ LET s == wsSend(readyState[ws], FALSE)
               rec == SendRec(k, responseMessage(r.value), s)
           IN  outbox' = [outbox EXCEPT ![ws] = Append(Append(@, rec), rec)]

Reply_InPromptOrder(k, outcome) ==
    LET r == callLangflowAgent(env, outcome)
        ws == ReplySocket(k)
    IN  /\ agentResponse' = r
        /\ UNCHANGED <<readyState, escaped>>
        /\ LET s == wsSend(readyState[ws], FALSE)
               rec == SendRec(k, responseMessage(r.value), s)
               before == SelectSeq(outbox[ws], LAMBDA x : x.idx < k.idx)
               after == SelectSeq(outbox[ws], LAMBDA x : x.idx > k.idx)
           IN  outbox' = [outbox EXCEPT ![ws] = before \o <<rec>> \o after]

Reply(k, outcome) ==
    LET r == callLangflowAgent(env, outcome)
        ws == ReplySocket(k)
    IN  /\ agentResponse' = r
        /\ IF r.threw
           THEN /\ Caught(ws)
                /\ UNCHANGED outbox
           ELSE \E throwsWhenClosed \in BOOLEAN :
                  LET s == wsSend(readyState[ws], throwsWhenClosed)
                      rec == SendRec(k, responseMessage(r.value), s)
                  IN  /\ outbox' = [outbox EXCEPT ![ws] = Append(@, rec)]
                      /\ IF s.threw THEN Caught(ws) ELSE UNCHANGED <<readyState, escaped>>

\* case 'prompt', lines 61-67: without LANGFLOW_URL callLangflowAgent settles
\* before any other event is handled, so the reply is part of this step;
\* with it, one request is made and the handler is suspended.
HandlePrompt_Dedups(c, data, userText) ==
    LET k == Call(c, prompts[c] + 1, Len(outbox[c]))
    IN  /\ prompts' = [prompts EXCEPT ![c] = @ + 1]
        /\ IF \E j \in calls : j.conn = c
           THEN /\ last' = FrameEvent(c, data, k.idx, NoRequest, NoOutcome)
                /\ agentResponse' = NoAnswer
                /\ UNCHANGED <<calls, requests, readyState, outbox, escaped>>
           ELSE IF ~env.LANGFLOW_URL
           THEN /\ Reply(k, NotCalled)
                /\ last' = FrameEvent(c, data, k.idx, NoRequest, NotCalled)
                /\ UNCHANGED <<calls, requests>>
           ELSE /\ requests' = [requests EXCEPT ![c] = @ + 1]
                /\ calls' = Suspend(calls, k)
                /\ last' = FrameEvent(c, data, k.idx, BuildRequest(env, userText), NoOutcome)
                /\ agentResponse' = NoAnswer
                /\ UNCHANGED <<readyState, outbox, escaped>>

HandlePrompt(c, data, userText) ==
    LET k == Call(c, prompts[c] + 1, Len(outbox[c]))
    IN  /\ prompts' = [prompts EXCEPT ![c] = @ + 1]
        /\ IF ~env.LANGFLOW_URL
           THEN /\ Reply(k, NotCalled)
                /\ last' = FrameEvent(c, data, k.idx, NoRequest, NotCalled)
                /\ UNCHANGED <<calls, requests>>
           ELSE /\ requests' = [requests EXCEPT ![c] = @ + 1]
                /\ calls' = Suspend(calls, k)
                /\ last' = FrameEvent(c, data, k.idx, BuildRequest(env, userText), NoOutcome)
                /\ agentResponse' = NoAnswer
                /\ UNCHANGED <<readyState, outbox, escaped>>

\* ws.on('message'), lines 50-91, for one frame on an open connection.
Receive(c, data) ==
    /\ Alive
    /\ Listening(c)
    /\ TotalFrames < MaxFrames
    /\ received' = [received EXCEPT ![c] = @ + 1]
    /\ twiml' = NoTwiml
    /\ UNCHANGED <<env, proc>>
    /\ LET branch == Dispatch(data)
       IN  \/ /\ branch = "prompt"
              /\ TotalPrompts < MaxPrompts
              /\ HandlePrompt(c, data, JSONparse(data).message.voicePrompt)
           \/ /\ branch = "catch"
              /\ Caught(c)
              /\ last' = FrameEvent(c, data, 0, NoRequest, NoOutcome)
              /\ agentResponse' = NoAnswer
              /\ UNCHANGED <<prompts, calls, requests, outbox>>
           \/ /\ branch = "interrupt"
              /\ calls' = onInterrupt(calls, c)
              /\ last' = FrameEvent(c, data, 0, NoRequest, NoOutcome)
              /\ agentResponse' = NoAnswer
              /\ UNCHANGED <<readyState, prompts, requests, outbox, escaped>>
           \/ /\ branch \in {"setup", "default"}
              /\ last' = FrameEvent(c, data, 0, NoRequest, NoOutcome)
              /\ agentResponse' = NoAnswer
              /\ UNCHANGED <<readyState, prompts, calls, requests, outbox, escaped>>

\* The axios.post of call k settles with outcome, and the handler resumes:
\* lines 127-140 and then 67-79.  axios is given no timeout (line 127), so
\* a backend that never answers never settles the call.
AgentSettles(k, outcome) ==
    /\ Alive
    /\ k \in calls
    /\ env.backendAnswers
    /\ calls' = calls \ {k}
    /\ Reply(k, outcome)
    /\ last' = SettleEvent(k, outcome)
    /\ twiml' = NoTwiml
    /\ UNCHANGED <<env, received, prompts, requests, proc>>

Next ==
    \/ \E c \in Conns : Connect(c)
    \/ \E c \in Conns : Close(c)
    \/ \E c \in Conns : WsError(c)
    \/ \E c \in Conns, data \in Frames : Receive(c, data)
    \/ \E k \in calls, outcome \in Outcomes : AgentSettles(k, outcome)

Spec == Init /\ [][Next]_vars

\* The event loop handles every response that arrives: a call whose backend
\* answers is eventually settled.
AllCalls == {Call(c, i, n) : c \in Conns, i \in 1..(MaxPrompts + 1), n \in 0..(MaxPrompts + 1)}

FairSpec ==
    Spec /\ \A k \in AllCalls : WF_vars(\E outcome \in Outcomes : AgentSettles(k, outcome))

\* ------------------------------------------------------------ observations
Outstanding(c) == {k \in calls : k.conn = c}
\* The ws.send calls made for prompt i of connection c.
RepliesTo(c, i) == {j \in 1..Len(outbox[c]) : outbox[c][j].idx = i}
\* The frames that reached the wire of c.
IsWritten(r) == r.written
Wire(c) == SelectSeq(outbox[c], IsWritten)
LastSend(c) == outbox[c][Len(outbox[c])]

\* This step handled one frame on c / resumed one suspended handler.
FrameStep(c) == received'[c] = received[c] + 1
SettleStep == \E k \in calls : k \notin calls'

\* The agent call did not produce a response body to read.
FailedOutcomes ==
    Failures \cup {NotCalled, Resolve(RawData)}
Succeeded(o) == o.kind = "resolve" /\ o.data.kind = "json"

\* -------------------------------------------------------------------- C1
\* C1: on every connection the 'text' frames written never outnumber the
\* prompts received; no prompt is ever answered by two ws.send calls, a
\* prompt whose agent call is outstanding has no reply yet, and on a
\* connection that is still open every prompt whose agent call has finished
\* has exactly one reply, which was written.
C1_ExactlyOneReplyPerPrompt ==
    \A c \in Conns :
        /\ Len(Wire(c)) <= prompts[c]
        /\ \A i \in 1..prompts[c] :
              LET n == Cardinality(RepliesTo(c, i))
                  waiting == \E k \in calls : k.conn = c /\ k.idx = i
              IN  /\ n <= 1
                  /\ waiting => n = 0
                  /\ (~waiting /\ readyState[c] = "OPEN") =>
                        /\ n = 1
                        /\ \A j \in RepliesTo(c, i) : outbox[c][j].written

C1_Witness ==
    \E c \in Conns :
        /\ env.LANGFLOW_URL
        /\ readyState[c] = "OPEN"
        /\ prompts[c] = 2
        /\ Outstanding(c) = {}
        /\ Len(Wire(c)) = 2
        /\ last.kind = "settle" /\ last.outcome \in Failures

\* -------------------------------------------------------------------- C2
\* C2: every prompt whose agent call is outstanding on a connection is
\* eventually answered by a written 'text' frame, unless the connection
\* closes first.
C2_EveryPromptEventuallyAnswered ==
    \A k \in AllCalls :
        (k \in calls) ~>
            \/ readyState[k.conn] = "CLOSED"
            \/ \E j \in RepliesTo(k.conn, k.idx) : outbox[k.conn][j].written

\* -------------------------------------------------------------------- C3
\* C3: no connection ever has two agent calls outstanding.
C3_AtMostOneOutstandingCall ==
    \A c \in Conns : Cardinality(Outstanding(c)) <= 1

\* -------------------------------------------------------------------- C4
\* C4: on every connection the replies are sent in the order in which their
\* prompts were received.
C4_RepliesInPromptOrder ==
    \A c \in Conns :
        \A i, j \in 1..Len(outbox[c]) :
            i < j => outbox[c][i].idx < outbox[c][j].idx

\* -------------------------------------------------------------------- C5
\* C5: ws.send is never called on a connection that has closed: every send
\* call found its connection open.
C5_NoSendAfterClose ==
    \A c \in Conns : \A j \in 1..Len(outbox[c]) : outbox[c][j].written

\* -------------------------------------------------------------------- C6
\* C6: no exception ever leaves the message handler, and when the agent call
\* handled last failed (rejected, not configured, or a body that is not
\* JSON) the reply sent for it carries the fixed apology as its token.
C6_FailureGivesApology ==
    /\ ~escaped
    /\ last.outcome \in FailedOutcomes =>
          /\ Len(outbox[last.conn]) > 0
          /\ LastSend(last.conn).idx = last.idx
          /\ LastSend(last.conn).frame.type = "text"
          /\ LastSend(last.conn).frame.token = Apology

\* -------------------------------------------------------------------- C7
\* C7: every frame ever sent is a 'text' frame with last = true and
\* interruptible = true, and the reply to an agent call that succeeded
\* carries as token the text callLangflowAgent returned for that response.
C7_ReplyFrameShape ==
    /\ \A c \in Conns : \A j \in 1..Len(outbox[c]) :
          /\ outbox[c][j].frame.type = "text"
          /\ outbox[c][j].frame.last = TRUE
          /\ outbox[c][j].frame.interruptible = TRUE
    /\ Succeeded(last.outcome) =>
          /\ Len(outbox[last.conn]) > 0
          /\ LastSend(last.conn).idx = last.idx
          /\ LastSend(last.conn).frame.token = callLangflowAgent(env, last.outcome).value

C7_Witness ==
    /\ last.kind = "settle"
    /\ last.outcome = Resolve(JsonData(Undefined, Str("10:30 AM")))
    /\ readyState[last.conn] = "OPEN"
    /\ LastSend(last.conn).written
    /\ LastSend(last.conn).frame =
          [type |-> "text", token |-> Str("10:30 AM"), last |-> TRUE, interruptible |-> TRUE]

\* -------------------------------------------------------------------- C8
\* C8: a step in which an agent call fails leaves every connection in the
\* state it had, lets no exception out of the handler, ends exactly that
\* call and sends its reply; and on an open connection every prompt received
\* after a reply was sent has its own agent call outstanding or its own
\* written reply.
C8_FailureStep ==
    ((SettleStep \/ \E c \in Conns : FrameStep(c)) /\ last'.outcome \in FailedOutcomes) =>
        /\ readyState' = readyState
        /\ ~escaped'
        /\ calls' = calls \ {Call(last'.conn, last'.idx, k.seen) : k \in calls}
        /\ Cardinality(calls') = Cardinality(calls) - (IF SettleStep THEN 1 ELSE 0)
        /\ Len(outbox'[last'.conn]) = Len(outbox[last'.conn]) + 1
        /\ outbox'[last'.conn][Len(outbox'[last'.conn])].idx = last'.idx
        /\ \A c \in Conns \ {last'.conn} : outbox'[c] = outbox[c]

C8_LaterPromptsHandled ==
    \A c \in Conns :
        readyState[c] = "OPEN" =>
            \A i \in 1..prompts[c] :
                \/ \E k \in calls : k.conn = c /\ k.idx = i
                \/ \E j \in RepliesTo(c, i) : outbox[c][j].written

\* C8: a failed agent call never closes a connection or ends a session, and
\* later prompts on the connection are handled as usual.
C8_FailureKeepsSessionOpen ==
    [][C8_FailureStep]_vars /\ []C8_LaterPromptsHandled

C8_Witness ==
    \E c \in Conns :
        /\ env.LANGFLOW_URL
        /\ readyState[c] = "OPEN"
        /\ Len(outbox[c]) = 2
        /\ outbox[c][1].idx = 1 /\ outbox[c][1].frame.token = Apology
        /\ outbox[c][2].idx = 2 /\ outbox[c][2].seen = 1 /\ outbox[c][2].written
        /\ outbox[c][2].frame.token = Str("10:30 AM")

\* -------------------------------------------------------------------- C9
\* C9: a step that handles a frame which is not JSON, is JSON without a
\* usable type, or has a type other than setup / prompt / interrupt leaves
\* the connection open, sends nothing, starts no agent call, makes no
\* request, and lets no exception out of the handler.
C9_BadFrameStep ==
    \A c \in Conns :
        (FrameStep(c) /\ last'.data \in BadFrames) =>
            /\ readyState'[c] = "OPEN"
            /\ readyState' = readyState
            /\ outbox' = outbox
            /\ calls' = calls
            /\ requests' = requests
            /\ prompts' = prompts
            /\ ~escaped'

\* C9: every step that handles an unparsable, untyped or unknown-typed frame
\* only drops it.
C9_BadFrameDropped == [][C9_BadFrameStep]_vars

\* A bad frame was just dropped on an open connection that has already sent
\* one reply and has another agent call outstanding.
C9_Witness ==
    /\ last.kind = "frame"
    /\ last.data \in BadFrames
    /\ readyState[last.conn] = "OPEN"
    /\ Len(Wire(last.conn)) = 1
    /\ Outstanding(last.conn) # {}

\* -------------------------------------------------------------------- C10
\* C10: a step that handles a 'setup' frame sends nothing, starts no agent
\* call and makes no request, in whatever state the session is.
C10_SetupStep ==
    \A c \in Conns :
        (FrameStep(c) /\ last'.data = SetupFrame) =>
            /\ outbox' = outbox
            /\ calls' = calls
            /\ requests' = requests
            /\ prompts' = prompts

\* C10: every step that handles a 'setup' frame sends nothing and starts no
\* agent call.
C10_SetupIsSilent == [][C10_SetupStep]_vars

\* A setup frame was handled as the third frame of a connection that had
\* sent a reply and had an agent call outstanding.
C10_Witness ==
    /\ last.kind = "frame"
    /\ last.data = SetupFrame
    /\ received[last.conn] = 3
    /\ Len(Wire(last.conn)) = 1
    /\ Outstanding(last.conn) # {}

\* -------------------------------------------------------------------- C11
\* C11: whenever a connection is open with an agent call outstanding, its
\* message handler can be given any further frame at once (interrupt, setup,
\* unknown, unparsable, or another prompt): nothing makes the frame wait for
\* the outstanding call.  (The premises on TotalFrames and TotalPrompts are
\* the bounds of the run.)
C11_FramesHandledWhileAwaiting ==
    \A c \in Conns :
        (readyState[c] = "OPEN" /\ Outstanding(c) # {} /\ TotalFrames < MaxFrames) =>
            /\ \A data \in {SetupFrame, InterruptFrame} \cup BadFrames :
                  ENABLED Receive(c, data)
            /\ TotalPrompts < MaxPrompts =>
                  \A u \in Utterances : ENABLED Receive(c, PromptFrame(u))

\* An interrupt frame was handled on a connection whose earlier prompt is
\* still waiting for its agent call.
C11_Witness ==
    /\ last.kind = "frame"
    /\ last.data = InterruptFrame
    /\ received[last.conn] = 2
    /\ \E k \in Outstanding(last.conn) : k.idx = 1
    /\ outbox[last.conn] = <<>>

\* -------------------------------------------------------------------- C12
\* C12: a step that handles a frame of connection c, resumes a handler of c,
\* or opens or closes c changes nothing of any other connection (its socket
\* state, its counters, its outstanding calls, what was sent on it); the
\* reply of a resumed handler of c is appended to what was sent on c and
\* carries the result of that handler's own agent call; and every reply sent
\* on a connection answers a prompt received on that connection.
Session(c) ==
    <<readyState[c], received[c], prompts[c], requests[c], Outstanding(c), outbox[c]>>

About(c) ==
    \/ FrameStep(c)
    \/ SettleStep /\ last'.conn = c
    \/ readyState'[c] # readyState[c]

C12_Step ==
    \A c \in Conns :
        About(c) =>
            /\ \A d \in Conns \ {c} : Session(d)' = Session(d)
            /\ (SettleStep /\ env.LANGFLOW_URL) =>
                  /\ Len(outbox'[c]) = Len(outbox[c]) + 1
                  /\ outbox'[c][Len(outbox'[c])].idx = last'.idx
                  /\ outbox'[c][Len(outbox'[c])].frame.token =
                        callLangflowAgent(env, last'.outcome).value

C12_OwnReplies ==
    \A c \in Conns : \A j \in 1..Len(outbox[c]) :
        /\ outbox[c][j].idx \in 1..prompts[c]
        /\ Cardinality(RepliesTo(c, outbox[c][j].idx)) = 1

C12_SessionsIndependent == [][C12_Step]_vars /\ []C12_OwnReplies

\* Both connections had a prompt outstanding at once; the call of c1 then
\* failed and its apology went to c1 alone, the call of c2 still waiting.
C12_Witness ==
    /\ last.kind = "settle"
    /\ last.conn = "c1"
    /\ last.outcome \in Failures
    /\ Outstanding("c2") # {}
    /\ Len(Wire("c1")) = 1
    /\ outbox["c1"][1].frame.token = Apology
    /\ outbox["c2"] = <<>>
    /\ readyState = [c \in Conns |-> "OPEN"]

\* -------------------------------------------------------------------- C13
\* The state of the session of connection c in the state machine of the
\* specification.
SessionState(c) ==
    IF readyState[c] = "NONE" THEN "None"
    ELSE IF readyState[c] = "CLOSED" THEN "Closed"
    ELSE IF Outstanding(c) # {} THEN "AwaitingAgent"
    ELSE "Idle"

\* The transitions the state machine lists (None -> Idle is the opening of
\* the connection).
Listed(from, to) ==
    \/ from = "None" /\ to \in {"None", "Idle"}
    \/ from = "Idle" /\ to \in {"Idle", "AwaitingAgent", "Closed"}
    \/ from = "AwaitingAgent" /\ to \in {"AwaitingAgent", "Idle", "Closed"}
    \/ from = "Closed" /\ to = "Closed"

C13_Step ==
    \A c \in Conns :
        /\ Listed(SessionState(c), SessionState(c)')
        \* an agent call becomes outstanding exactly on Idle -> AwaitingAgent
        /\ requests'[c] # requests[c] =>
              SessionState(c) = "Idle" /\ SessionState(c)' = "AwaitingAgent"
        \* AwaitingAgent is left for Idle exactly when the reply has been sent
        /\ (SessionState(c) = "AwaitingAgent" /\ Len(outbox'[c]) > Len(outbox[c])) =>
              SessionState(c)' = "Idle"

\* C13: every step of every session is a transition of the state machine
\* Idle -> AwaitingAgent -> Idle -> Closed: an agent call is started only
\* from Idle, the session is Idle again once the reply of the outstanding
\* call has been sent, and Closed is never left.
C13_FollowsStateMachine == [][C13_Step]_vars

\* ------------------------------------------- callLangflowAgent on its own
\* callLangflowAgent applied once to every configuration and every outcome of
\* the HTTP call, response bodies holding any JSON value at the two places
\* lines 130-131 read.
Bool(s) == [t |-> "boolean", v |-> s]
Obj(s) == [t |-> "object", v |-> s]
AskValues ==
    {Undefined, Null, Str(""), Str("X"), Str("Y"), Num("0"), Num("42"),
     Bool("false"), Bool("true"), Obj("{}")}
AskOutcomes ==
    Failures \cup {Resolve(RawData)}
        \cup {Resolve(JsonData(x, y)) : x \in AskValues, y \in AskValues}

AskEvent(outcome) ==
    [kind |-> "ask", conn |-> "", idx |-> 0, data |-> Garbage,
     request |-> NoRequest, outcome |-> outcome]

AskInit ==
    /\ env \in [LANGFLOW_URL : BOOLEAN, LANGFLOW_API_KEY : BOOLEAN, backendAnswers : {TRUE}]
    /\ readyState = [c \in Conns |-> "NONE"]
    /\ received = [c \in Conns |-> 0]
    /\ prompts = [c \in Conns |-> 0]
    /\ requests = [c \in Conns |-> 0]
    /\ calls = {}
    /\ outbox = [c \in Conns |-> <<>>]
    /\ escaped = FALSE
    /\ \E o \in AskOutcomes : last = AskEvent(o)
    /\ agentResponse = NoAnswer
    /\ twiml = NoTwiml
    /\ proc = "running"

\* await callLangflowAgent(userText), the HTTP call settling with the
\* outcome drawn in AskInit.
Ask ==
    /\ last.kind = "ask"
    /\ agentResponse = NoAnswer
    /\ agentResponse' = callLangflowAgent(env, last.outcome)
    /\ UNCHANGED <<env, readyState, received, prompts, requests, calls, outbox,
                   escaped, last, twiml, proc>>

AskNext == Ask

AskSpec == AskInit /\ [][AskNext]_vars

\* callLangflowAgent returned after an HTTP call that resolved with a JSON
\* body.
Asked == agentResponse # NoAnswer
AskedJson ==
    /\ Asked
    /\ env.LANGFLOW_URL
    /\ last.outcome.kind = "resolve"
    /\ last.outcome.data.kind = "json"
AskText == last.outcome.data.text
AskMessage == last.outcome.data.message

\* -------------------------------------------------------------------- C14
\* C14: when the response body carries a text X at
\* outputs[0].outputs[0].results.message.text, callLangflowAgent returns X,
\* whatever X is and whatever the top-level message field holds.
C14_RoundTrip ==
    (AskedJson /\ AskText.t = "string") =>
        /\ ~agentResponse.threw
        /\ agentResponse.value = AskText

\* -------------------------------------------------------------------- C15
\* C15: with the nested path absent (undefined or null on the way) and a
\* top-level message Y, the result is Y; with both absent it is the "didn't
\* understand" text; and when the nested path is present the result is
\* never taken from the top-level message.
Absent(x) == x \in {Undefined, Null}

C15_FallbackChain ==
    AskedJson =>
        /\ (Absent(AskText) /\ AskMessage.t = "string") =>
              agentResponse.value = AskMessage
        /\ (Absent(AskText) /\ Absent(AskMessage)) =>
              agentResponse.value = DidntUnderstand
        /\ (~Absent(AskText) /\ agentResponse.value = AskMessage) =>
              AskMessage = AskText

\* -------------------------------------------------------------------- C16
\* C16: callLangflowAgent never throws and always returns a string, for
\* every configuration and every outcome of the HTTP call.
C16_AlwaysText ==
    Asked => ~agentResponse.threw /\ agentResponse.value.t = "string"

\* -------------------------------------------------------------------- C17
\* C17: a step that handles an 'interrupt' frame sends nothing, makes no
\* agent request, counts no prompt and leaves every suspended handler
\* suspended; and the step that resumes a suspended handler, interrupted or
\* not, makes exactly one ws.send call for its prompt, none having been made
\* before, which reaches the wire if the connection is still open.
C17_InterruptStep ==
    \A c \in Conns :
        (FrameStep(c) /\ last'.data = InterruptFrame) =>
            /\ outbox' = outbox
            /\ calls' = calls
            /\ requests' = requests
            /\ prompts' = prompts
            /\ readyState' = readyState
            /\ escaped' = escaped

C17_ResumeStep ==
    \A k \in calls :
        k \notin calls' =>
            /\ RepliesTo(k.conn, k.idx) = {}
            /\ Cardinality(RepliesTo(k.conn, k.idx)') = 1
            /\ Len(outbox'[k.conn]) = Len(outbox[k.conn]) + 1
            /\ readyState[k.conn] = "OPEN" =>
                  outbox'[k.conn][Len(outbox'[k.conn])].written

C17_InterruptIsInformational == [][C17_InterruptStep /\ C17_ResumeStep]_vars

\* An interrupt arrived on a connection that had answered one prompt and is
\* awaiting the agent for another: the reply stays as it was and the call
\* stays outstanding.
C17_Witness ==
    /\ last.kind = "frame"
    /\ last.data = InterruptFrame
    /\ received[last.conn] = 3
    /\ prompts[last.conn] = 2
    /\ Cardinality(Outstanding(last.conn)) = 1
    /\ Len(Wire(last.conn)) = 1
    /\ readyState[last.conn] = "OPEN"

\* -------------------------------------------------------------------- C18
\* C18: once a connection is no longer open (it closed, or its transport
\* reported an error) it stays so, no frame is handled on it any more and
\* nothing more reaches its wire; a ws.send that failed to write found the
\* connection torn down and leaves it so; and no prompt is ever given a
\* second ws.send call, a failed one included.
C18_TornDownStep ==
    \A c \in Conns :
        readyState[c] = "CLOSED" =>
            /\ readyState'[c] = "CLOSED"
            /\ received'[c] = received[c]
            /\ prompts'[c] = prompts[c]
            /\ requests'[c] = requests[c]
            /\ Wire(c)' = Wire(c)

C18_FailedWriteStep ==
    \A c \in Conns :
        (Len(outbox'[c]) > Len(outbox[c]) /\ ~outbox'[c][Len(outbox'[c])].written) =>
            /\ readyState[c] = "CLOSED"
            /\ readyState'[c] = "CLOSED"
            /\ Len(outbox'[c]) = Len(outbox[c]) + 1

C18_NoRetry ==
    \A c \in Conns : \A j \in 1..Len(outbox[c]) :
        ~outbox[c][j].written => RepliesTo(c, outbox[c][j].idx) = {j}

SessionAlive(c) == readyState[c] = "OPEN" \/ Outstanding(c) # {}

\* C19: a connection has a session exactly while it is open: none before it
\* opens, one while it is open, none once it has closed.
C19_OneSessionPerOpenConnection ==
    \A c \in Conns : SessionAlive(c) <=> readyState[c] = "OPEN"

\* -------------------------------------------------------------------- C20
\* POST /voice, lines 21-32.  req.get('host') is the Host header of the
\* request, undefined when the request has none; a template literal turns
\* undefined into the text "undefined".
Hosts == {Str("relay.example.com"), Str("relay example:port/?"), Undefined}

TemplateString(x) == IF x.t = "undefined" THEN "undefined" ELSE x.v

\* The response: status, content type, and the attributes of the
\* <ConversationRelay> element of the TwiML body.
conversationRelay_NeedsHost(host) ==
    IF host.t = "undefined"
    THEN [host |-> host, status |-> 500, type |-> "text/html",
          url |-> [scheme |-> "", host |-> "", path |-> ""],
          welcomeGreeting |-> "", language |-> ""]
    ELSE [host |-> host, status |-> 200, type |-> "text/xml",
          url |-> [scheme |-> "wss", host |-> host.v, path |-> "/websocket"],
          welcomeGreeting |-> "Hello! I'm P, the event MC. How can I help you today?",
          language |-> "en-US"]

conversationRelay(host) ==
    [host |-> host, status |-> 200, type |-> "text/xml",
     url |-> [scheme |-> "wss", host |-> TemplateString(host), path |-> "/websocket"],
     welcomeGreeting |-> "Hello! I'm P, the event MC. How can I help you today?",
     language |-> "en-US"]

VoiceEvent ==
    [kind |-> "voice", conn |-> "", idx |-> 0, data |-> Garbage,
     request |-> NoRequest, outcome |-> NoOutcome]

Voice(host) ==
    /\ proc = "running"
    /\ twiml' = conversationRelay(host)
    /\ last' = VoiceEvent
    /\ UNCHANGED <<env, readyState, received, prompts, requests, calls, outbox, escaped,
                    agentResponse, proc>>

\* Calls come in while sessions run; the agent backend is configured,
\* without a key, and answers.
VoiceInit ==
    /\ Init
    /\ env = [LANGFLOW_URL |-> TRUE, LANGFLOW_API_KEY |-> FALSE, backendAnswers |-> TRUE]

VoiceNext ==
    \/ Next
    \/ \E host \in Hosts : Voice(host)

VoiceSpec == VoiceInit /\ [][VoiceNext]_vars

\* C20: every POST /voice, with any Host header or none, can be answered in
\* every state; its answer is a 200 text/xml response whose relay address is
\* wss://<host>/websocket with the Host header's text as <host> (the text
\* "undefined" when there is no header), the fixed greeting and language
\* en-US; and answering it changes nothing of any connection.
C20_Descriptor ==
    twiml # NoTwiml =>
        /\ twiml.status = 200
        /\ twiml.type = "text/xml"
        /\ twiml.url.scheme = "wss"
        /\ twiml.url.host = (IF twiml.host = Undefined THEN "undefined" ELSE twiml.host.v)
        /\ twiml.url.path = "/websocket"
        /\ twiml.welcomeGreeting = "Hello! I'm P, the event MC. How can I help you today?"
        /\ twiml.language = "en-US"

C20_NeverFails == \A host \in Hosts : ENABLED Voice(host)

C20_VoiceStep ==
    twiml' # NoTwiml =>
        /\ last'.kind = "voice"
        /\ \A c \in Conns : Session(c)' = Session(c)
        /\ calls' = calls
        /\ escaped' = escaped
        /\ env' = env

C20_VoiceAlwaysAnswers ==
    [](C20_Descriptor /\ C20_NeverFails) /\ [][C20_VoiceStep]_vars

\* A call came in without a Host header while one connection was awaiting
\* the agent and another had closed.
C20_Witness ==
    /\ twiml.host = Undefined
    /\ twiml.status = 200
    /\ twiml.url.host = "undefined"
    /\ \E c \in Conns : Outstanding(c) # {} /\ readyState[c] = "OPEN"
    /\ \E c \in Conns : readyState[c] = "CLOSED"

\* -------------------------------------------------------------------- C21
\* C21: a step that handles a 'prompt' frame counts one more prompt and
\* starts one agent call in that same step, whatever is already outstanding:
\* with LANGFLOW_URL set one more request is made and one more handler is
\* suspended, all the handlers suspended before staying suspended; without
\* it the call fails at once and is answered in the step.  So on every
\* connection the agent calls started (those outstanding and those answered)
\* are as many as the prompt frames handled, and with LANGFLOW_URL set so
\* are the requests made.
C21_PromptStep ==
    \A c \in Conns :
        (FrameStep(c) /\ Dispatch(last'.data) = "prompt") =>
            /\ prompts'[c] = prompts[c] + 1
            /\ IF env.LANGFLOW_URL
               THEN /\ requests'[c] = requests[c] + 1
                    /\ calls \subseteq calls'
                    /\ Cardinality(Outstanding(c)') = Cardinality(Outstanding(c)) + 1
                    /\ outbox' = outbox
               ELSE /\ Len(outbox'[c]) = Len(outbox[c]) + 1
                    /\ calls' = calls

C21_CallsEqualPrompts ==
    \A c \in Conns :
        /\ prompts[c] = Cardinality(Outstanding(c)) + Len(outbox[c])
        /\ env.LANGFLOW_URL => requests[c] = prompts[c]
        /\ ~env.LANGFLOW_URL => requests[c] = 0

C21_EveryPromptStartsACall == [][C21_PromptStep]_vars /\ []C21_CallsEqualPrompts

\* A second prompt, the same words as the first, arrived while the call of
\* the first was outstanding: two requests made, two handlers suspended.
C21_Witness ==
    /\ last.kind = "frame"
    /\ Dispatch(last.data) = "prompt"
    /\ prompts[last.conn] = 2
    /\ requests[last.conn] = 2
    /\ Cardinality(Outstanding(last.conn)) = 2
    /\ received[last.conn] = 2

\* -------------------------------------------------------------------- C22
\* C22: the step that invokes callLangflowAgent (a 'prompt' frame) makes
\* one HTTP request when LANGFLOW_URL is set, carrying the utterance and the
\* chat markers, with an Authorization header exactly when LANGFLOW_API_KEY
\* is set; without LANGFLOW_URL it makes none and the reply sent in that
\* step is the apology.  No other step makes a request: not the end of a
\* call, failed or not, and not any other frame.
C22_InvocationStep ==
    \A c \in Conns :
        (FrameStep(c) /\ Dispatch(last'.data) = "prompt") =>
            IF env.LANGFLOW_URL
            THEN /\ requests'[c] = requests[c] + 1
                 /\ last'.request.sent
                 /\ last'.request.input_value = last'.data.voicePrompt
                 /\ last'.request.output_type = "chat"
                 /\ last'.request.input_type = "chat"
                 /\ last'.request.authorization <=> env.LANGFLOW_API_KEY
            ELSE /\ requests' = requests
                 /\ ~last'.request.sent
                 /\ outbox'[c][Len(outbox'[c])].frame.token = Apology

C22_NoOtherRequest ==
    \A c \in Conns :
        ~(FrameStep(c) /\ Dispatch(last'.data) = "prompt") =>
            requests'[c] = requests[c]

C22_OneRequestPerInvocation == [][C22_InvocationStep /\ C22_NoOtherRequest]_vars

\* A call made with a key and a URL failed; it was answered with the one
\* request that had been made for it.
C22_Witness ==
    /\ env.LANGFLOW_URL /\ env.LANGFLOW_API_KEY
    /\ last.kind = "settle"
    /\ last.outcome \in Failures
    /\ prompts[last.conn] = 1
    /\ requests[last.conn] = 1
    /\ Len(outbox[last.conn]) = 1

\* -------------------------------------------------------------------- C23
EmptyPrompts == {PromptFrame(Str("")), PromptFrame(Undefined)}

\* C23: a step that handles a 'prompt' frame whose voicePrompt is "" or
\* missing does what the step of any prompt does: it counts the prompt and
\* starts its one agent call, with LANGFLOW_URL set by one request that
\* carries the voicePrompt as it came and one more suspended handler, without
\* it by the apology sent in the step; and every handler resumed later sends
\* one 'text' frame for its prompt, none having been sent before, which is
\* written if the connection is still open.
C23_EmptyPromptStep ==
    \A c \in Conns :
        (FrameStep(c) /\ last'.data \in EmptyPrompts) =>
            /\ prompts'[c] = prompts[c] + 1
            /\ last'.idx = prompts'[c]
            /\ IF env.LANGFLOW_URL
               THEN /\ requests'[c] = requests[c] + 1
                    /\ last'.request.sent
                    /\ last'.request.input_value = last'.data.voicePrompt
                    /\ calls' = calls \cup {Call(c, prompts[c] + 1, Len(outbox[c]))}
                    /\ Cardinality(calls') = Cardinality(calls) + 1
                    /\ outbox' = outbox
               ELSE /\ Len(outbox'[c]) = Len(outbox[c]) + 1
                    /\ outbox'[c][Len(outbox'[c])].idx = prompts'[c]
                    /\ outbox'[c][Len(outbox'[c])].frame.type = "text"
                    /\ outbox'[c][Len(outbox'[c])].written

C23_ReplyStep ==
    \A k \in calls :
        k \notin calls' =>
            /\ Cardinality({j \in 1..Len(outbox[k.conn]) : outbox[k.conn][j].idx = k.idx}) = 0
            /\ Cardinality({j \in 1..Len(outbox'[k.conn]) : outbox'[k.conn][j].idx = k.idx}) = 1
            /\ outbox'[k.conn][Len(outbox'[k.conn])].frame.type = "text"
            /\ readyState[k.conn] = "OPEN" =>
                  outbox'[k.conn][Len(outbox'[k.conn])].written

C23_EmptyPromptHandledAlike == [][C23_EmptyPromptStep /\ C23_ReplyStep]_vars

\* After a prompt that was answered, a 'prompt' frame without a voicePrompt
\* arrived: its request went out without an input_value and its handler
\* is suspended.
C23_Witness ==
    /\ env.LANGFLOW_URL
    /\ last.kind = "frame"
    /\ last.data = PromptFrame(Undefined)
    /\ last.request.sent
    /\ last.request.input_value = Undefined
    /\ prompts[last.conn] = 2
    /\ Len(Wire(last.conn)) = 1
    /\ \E k \in Outstanding(last.conn) : k.idx = 2

\* -------------------------------------------------------------------- C24
\* C24: the step that resumes the handler of call k with the outcome of its
\* HTTP call appends one send to what was sent on k's connection, leaving
\* the earlier sends as they were: it is recorded for k's prompt and its
\* token is what callLangflowAgent returns for that outcome; and no prompt
\* of a connection ever has two sends, however the calls overlapped.
C24_ResultStep ==
    \A k \in calls :
        k \notin calls' =>
            LET c == k.conn
                n == Len(outbox[c])
            IN  /\ last'.kind = "settle" /\ last'.conn = c /\ last'.idx = k.idx
                /\ Len(outbox'[c]) = n + 1
                /\ SubSeq(outbox'[c], 1, n) = outbox[c]
                /\ outbox'[c][n + 1].idx = k.idx
                /\ outbox'[c][n + 1].frame.token =
                      JSONproperty(callLangflowAgent(env, last'.outcome).value)
                /\ calls' = calls \ {k}

C24_OneFramePerResult ==
    \A c \in Conns : \A i, j \in 1..Len(outbox[c]) :
        outbox[c][i].idx = outbox[c][j].idx => i = j

C24_ResultsNotMixed == [][C24_ResultStep]_vars /\ []C24_OneFramePerResult

\* Two prompts of one connection overlapped; the call of the second ended
\* first, in failure, the call of the first then succeeded: each frame
\* carries the result of its own call.
C24_Witness ==
    \E c \in Conns :
        /\ Outstanding(c) = {}
        /\ Len(Wire(c)) = 2
        /\ outbox[c][1].idx = 2
        /\ outbox[c][1].frame.token = Apology
        /\ outbox[c][2].idx = 1
        /\ outbox[c][2].frame.token = Str("10:30 AM")

\* -------------------------------------------------------------------- C25
\* C25: the send of a reply is part of the step in which its agent call
\* ends: in no state has a call ended without its send having been made, or
\* a send been made for a call still outstanding; and that send is put after
\* everything sent on the connection before, so the sends of a connection
\* stand in the order in which their calls ended, whatever the order of the
\* prompts.
C25_NothingBetween ==
    \A c \in Conns : \A i \in 1..prompts[c] :
        (\E k \in Outstanding(c) : k.idx = i) <=> RepliesTo(c, i) = {}

C25_CompletionStep ==
    \A k \in calls :
        k \notin calls' =>
            LET c == k.conn
            IN  /\ Len(outbox'[c]) = Len(outbox[c]) + 1
                /\ \A j \in 1..Len(outbox[c]) : outbox'[c][j] = outbox[c][j]
                /\ outbox'[c][Len(outbox'[c])].idx = k.idx
                /\ \A j \in calls' : j.conn = c =>
                      \A n \in 1..Len(outbox'[c]) : outbox'[c][n].idx # j.idx

C25_RepliesInCompletionOrder == []C25_NothingBetween /\ [][C25_CompletionStep]_vars

\* The call of the second prompt has just ended and its reply stands first
\* on the wire, the call of the first prompt still outstanding.
C25_Witness ==
    /\ last.kind = "settle"
    /\ last.idx = 2
    /\ readyState[last.conn] = "OPEN"
    /\ Len(Wire(last.conn)) = 1
    /\ outbox[last.conn][1].idx = 2
    /\ \E k \in Outstanding(last.conn) : k.idx = 1

\* -------------------------------------------------------------------- C26
\* What the handler does for a frame, as a function of the frame and the
\* configuration alone: the request it makes, and the frames it sends before
\* any agent response.
RequestFor(data, e) ==
    IF Dispatch(data) = "prompt" /\ e.LANGFLOW_URL
    THEN BuildRequest(e, data.voicePrompt)
    ELSE NoRequest

SentAtOnceFor(data, e) ==
    IF Dispatch(data) = "prompt" /\ ~e.LANGFLOW_URL
    THEN <<responseMessage(Apology)>>
    ELSE <<>>

Sent(c) == [j \in 1..Len(outbox[c]) |-> outbox[c][j].frame]

\* C26: in every step that handles a frame, the request made and the frames
\* sent are RequestFor and SentAtOnceFor of that frame and the environment;
\* in every step that ends an agent call, the one frame sent is
\* responseMessage of what callLangflowAgent makes of that call's outcome.
\* Nothing received before, on this connection or another, enters either.
C26_FrameStep ==
    \A c \in Conns :
        FrameStep(c) =>
            /\ last'.request = RequestFor(last'.data, env)
            /\ requests'[c] - requests[c] = (IF RequestFor(last'.data, env).sent THEN 1 ELSE 0)
            /\ Sent(c)' = Sent(c) \o SentAtOnceFor(last'.data, env)

C26_SettleStep ==
    \A k \in calls :
        k \notin calls' =>
            /\ requests' = requests
            /\ Sent(k.conn)' =
                  Append(Sent(k.conn),
                         responseMessage(callLangflowAgent(env, last'.outcome).value))

C26_HistoryIndependent == [][C26_FrameStep /\ C26_SettleStep]_vars

\* A prompt on c2 made its request while c1 had received two frames and had
\* a call outstanding, and c2 itself had received a frame before.
C26_Witness ==
    /\ last.kind = "frame"
    /\ last.conn = "c2"
    /\ last.data = PromptFrame(Str("What time is the keynote?"))
    /\ last.request = BuildRequest(env, Str("What time is the keynote?"))
    /\ received["c2"] = 2
    /\ received["c1"] = 1
    /\ Outstanding("c1") # {}

\* -------------------------------------------------------------------- C27
\* process.on('SIGTERM'), lines 144-150.  server.close stops the HTTP server
\* from accepting connections; its callback runs once every connection the
\* server accepted, the upgraded WebSocket connections included, has ended.
serverClosed_AtOnce(rs) == TRUE

serverClosed(rs) == \A c \in Conns : rs[c] # "OPEN"

\* lines 144-145: log, and ask the server to close.  A second SIGTERM finds
\* the server closing and changes nothing.
Sigterm ==
    /\ proc = "running"
    /\ proc' = "closing"
    /\ twiml' = NoTwiml
    /\ UNCHANGED <<env, readyState, received, prompts, requests, calls, outbox, escaped,
                    last, agentResponse>>

\* lines 145-148: the callback of server.close: process.exit(0).  Handlers
\* still suspended never resume.
Exit ==
    /\ proc = "closing"
    /\ serverClosed(readyState)
    /\ proc' = "exit 0"
    /\ twiml' = NoTwiml
    /\ UNCHANGED <<env, readyState, received, prompts, requests, calls, outbox, escaped,
                    last, agentResponse>>

\* SIGTERM arrives while sessions run; the agent backend is configured,
\* without a key, and answers.
TermInit ==
    /\ Init
    /\ env = [LANGFLOW_URL |-> TRUE, LANGFLOW_API_KEY |-> FALSE, backendAnswers |-> TRUE]

TermNext ==
    \/ Next
    \/ Sigterm
    \/ Exit

TermSpec == TermInit /\ [][TermNext]_vars

\* C27: the step that handles SIGTERM closes no connection and removes no
\* suspended handler; the process exits only from the closing state, with
\* status 0, in a step that finds no connection open; so in no state has
\* the process exited while a connection is open, and while a connection
\* stays open after SIGTERM the process stays in the closing state, its
\* sessions going on as before.
C27_SigtermStep ==
    (proc = "running" /\ proc' # "running") =>
        /\ proc' = "closing"
        /\ readyState' = readyState
        /\ calls' = calls
        /\ outbox' = outbox

C27_ExitStep ==
    (proc # "exit 0" /\ proc' = "exit 0") =>
        /\ proc = "closing"
        /\ \A c \in Conns : readyState[c] # "OPEN"
        /\ readyState' = readyState
        /\ calls' = calls
        /\ outbox' = outbox

C27_StaysUp ==
    (proc = "closing" /\ \E c \in Conns : readyState'[c] = "OPEN") => proc' = "closing"

C27_ExitedOnlyWhenAllClosed ==
    /\ proc \in {"running", "closing", "exit 0"}
    /\ proc = "exit 0" => \A c \in Conns : readyState[c] # "OPEN"

C27_GracefulShutdown ==
    /\ []C27_ExitedOnlyWhenAllClosed
    /\ [][C27_SigtermStep /\ C27_ExitStep /\ C27_StaysUp]_vars

\* SIGTERM came while a connection was open with an agent call outstanding;
\* the connection then closed and the process exited, the call never
\* cancelled and never answered.
C27_Witness ==
    /\ proc = "exit 0"
    /\ \E c \in Conns :
          /\ readyState[c] = "CLOSED"
          /\ Outstanding(c) # {}
          /\ outbox[c] = <<>>

====
